---- MODULE Spec2Model ----
(***************************************************************************)
(* Model of the Transcriber component (client/src/App.jsx) and of the      *)
(* /api/translate handler (server, listed in README.md).                   *)
(*                                                                         *)
(* Text is a sequence of tokens; the token " " is a blank, every other     *)
(* token is a word.  String.trim() removes leading and trailing blanks.    *)
(***************************************************************************)
EXTENDS Integers, Sequences, FiniteSets, TLC

\* ---------------------------------------------------------------- bounds
MaxDiscarded == 1     \* replaced SpeechRecognition objects whose end event is pending
MaxLen == 3           \* tokens in the transcript
MaxHeard == 2         \* final results delivered since the last clear
MaxInflight == 2      \* fetch calls awaiting their response
TickMs == 500         \* granularity of the clock
MaxQueue == 2         \* utterances in the queue of the synthesis engine
MaxReqLen == 2        \* tokens in the text of a request sent to the server by hand

\* ------------------------------------------------------- program constants
DebounceMs == 1000

InputLangs == {"en-US", "es-ES"}
OutputLangs == {"bn", "es"}
\* transcripts the recognition engine reports for one result
Texts == {<<"a">>, <<"b">>}
ErrorKinds == {"network", "not-allowed", "no-speech"}

FailedPlaceholder == <<"Translation failed, You exceeded your current quota, please check your plan and billing details.">>
ErrorPlaceholder == <<"Translation error">>
NoKeyNotice == <<"(OPENAI_API_KEY not set on server) ">>

\* ------------------------------------------------------------ pure helpers
RECURSIVE TrimLeft(_)
TrimLeft(s) == IF s # <<>> /\ Head(s) = " " THEN TrimLeft(Tail(s)) ELSE s

RECURSIVE TrimRight(_)
TrimRight(s) ==
  IF s # <<>> /\ s[Len(s)] = " " THEN TrimRight(SubSeq(s, 1, Len(s) - 1)) ELSE s

Trim(s) == TrimRight(TrimLeft(s))

\* combined = (original + " " + final + " " + interim).trim()
Combined(orig, final, interim) == Trim(orig \o <<" ">> \o final \o <<" ">> \o interim)

\* the loop over ev.results: a final result adds transcript + " " to final,
\* an interim result adds transcript to interim
FinalPart(isFinal, text) == IF isFinal THEN text \o <<" ">> ELSE <<>>
InterimPart(isFinal, text) == IF isFinal THEN <<>> ELSE text

\* ------------------------------------------------------------------- state
VARIABLES
  speechApi,       \* hasSpeechRecognition(): the platform offers the API
  listening, original, translated, inputLang, outputLang, status,
  recognitionRef,  \* the current SpeechRecognition object, NullRec = null
  lastResultRef,
  discarded,       \* replaced SpeechRecognition objects that still owe their
                   \* end event, in the order they were replaced
  timers,          \* pending setTimeout callbacks of the debounce effect
  inflight,        \* fetch calls awaiting their response, oldest first; a call
                   \* is superseded once a later call's translation was shown
  heard,           \* final transcripts handed to onresult since the last clear
  unhandled,       \* an exception escaped an event handler
  synth,           \* window.speechSynthesis: its utterance queue, whether the
                   \* head of the queue is being spoken, and the engine calls
                   \* the last speak() made
  server           \* the last request /api/translate handled and its answer

vars == <<speechApi, listening, original, translated, inputLang, outputLang,
          status, recognitionRef, lastResultRef, discarded, timers, inflight,
          heard, unhandled, synth, server>>

NullRec == [state |-> "null", lang |-> "", captured |-> <<>>, handlers |-> FALSE]

\* new SpeechRecognition() with the four handlers of this render attached;
\* onresult closes over the `original` of the render that runs createRecognition
NewRec(lang, orig) ==
  [state |-> "inactive", lang |-> lang, captured |-> orig, handlers |-> TRUE]

\* createRecognition(lang): null without the API
createRecognition(lang, orig) == IF speechApi THEN NewRec(lang, orig) ELSE NullRec

\* r.onresult = null; r.onend = null; r.onerror = null; r.onstart = null
Detach(r) == [r EXCEPT !.handlers = FALSE, !.captured = <<>>]

\* ------------------------------------------------- SpeechRecognition engine
\* start() throws InvalidStateError unless the object is idle
StartThrows(r) == r.state # "inactive"
DoStart(r) == [r EXCEPT !.state = "starting"]
\* abort(): no further results, only the end event follows
DoAbort(r) == IF r.state \in {"inactive", "null"} THEN r ELSE [r EXCEPT !.state = "ending"]
\* stop(): a pending final result may still be delivered before the end event
DoStop(r) == IF r.state \in {"starting", "running"} THEN [r EXCEPT !.state = "stopping"] ELSE r

\* an object that is replaced in recognitionRef lives on until its end event;
\* it was aborted, so its language and the closure of onresult are not read again
Discard(ds, r) ==
  IF r.state \in {"inactive", "null"} THEN ds
  ELSE Append(ds, [r EXCEPT !.lang = "", !.captured = <<>>])
CanDiscard(r) == r.state \in {"inactive", "null"} \/ Len(discarded) < MaxDiscarded

\* the objects of the page: 0 is the current one, k > 0 the k-th discarded one
Objs == 0..Len(discarded)
Obj(k) == IF k = 0 THEN recognitionRef ELSE discarded[k]
RemoveAt(q, k) == [j \in 1..(Len(q) - 1) |-> IF j < k THEN q[j] ELSE q[j + 1]]
\* the object k after an engine step
RefWith(k, r) == IF k = 0 THEN r ELSE recognitionRef
DiscardedWith(k, r) ==
  IF k = 0 THEN discarded
  ELSE IF r.state = "inactive" THEN RemoveAt(discarded, k)
  ELSE [discarded EXCEPT ![k] = r]

\* a session is active from start() until it is stopped, aborted or ended
IsActive(r) == r.state \in {"starting", "running"}
ActiveCount == Cardinality({k \in Objs : IsActive(Obj(k))})

\* ------------------------------------------------------------ debounce effect
\* useEffect([original, outputLang]): the cleanup clears the timer of the
\* previous run, the effect arms a new one for the pair of this render
NewTimer(o, l) == [text |-> o, lang |-> l, left |-> DebounceMs]
ClearTimeout(ts, o, l) == {t \in ts : ~(t.text = o /\ t.lang = l)}
\* the effect without its cleanup
DebounceEffectNoClear(ts, o1, l1, o2, l2) ==
  IF <<o1, l1>> = <<o2, l2>> THEN ts ELSE ts \cup {NewTimer(o2, l2)}

DebounceEffect(ts, o1, l1, o2, l2) ==
  IF <<o1, l1>> = <<o2, l2>> THEN ts
  ELSE ClearTimeout(ts, o1, l1) \cup {NewTimer(o2, l2)}

\* the synthesis engine with nothing to say, the server before any request
IdleSynth == [queue |-> <<>>, speaking |-> FALSE, calls |-> <<>>]
IdleServer == [body |-> [outputLang |-> ""], key |-> FALSE,
               res |-> [code |-> 0, body |-> [error |-> ""]], fetched |-> FALSE]

Init ==
  /\ speechApi \in BOOLEAN
  /\ listening = FALSE
  /\ original = <<>>
  /\ translated = <<>>
  /\ inputLang = "en-US"
  /\ outputLang = "bn"
  /\ status = IF speechApi THEN "idle" ELSE "no-speech-api"
  /\ recognitionRef = createRecognition("en-US", <<>>)
  /\ lastResultRef = <<>>
  /\ discarded = <<>>
  /\ timers = {NewTimer(<<>>, "bn")}
  /\ inflight = <<>>
  /\ heard = <<>>
  /\ unhandled = FALSE
  /\ synth = IdleSynth
  /\ server = IdleServer

\* ------------------------------------------------------ recognition handlers
\* rec.onend: setStatus(prev => prev === "network-error" ? prev : "idle")
OnEndStatusIdle(prev) == "idle"

OnEndStatus(prev) == IF prev = "network-error" THEN prev ELSE "idle"

\* rec.onerror: the Status value for an error kind
OnErrorStatus(kind) ==
  IF kind = "network" THEN "network-error"
  ELSE IF kind = "not-allowed" THEN "permission-denied"
  ELSE "error"

\* rec.onerror: rec.abort() for network and not-allowed, nothing otherwise
OnErrorRec(kind, r) == IF kind \in {"network", "not-allowed"} THEN DoAbort(r) ELSE r

\* the start event of a session
OnStart(k) ==
  /\ Obj(k).state = "starting"
  /\ recognitionRef' = RefWith(k, [Obj(k) EXCEPT !.state = "running"])
  /\ discarded' = DiscardedWith(k, [Obj(k) EXCEPT !.state = "running"])
  /\ IF Obj(k).handlers
       THEN listening' = TRUE /\ status' = "listening"
       ELSE UNCHANGED <<listening, status>>
  /\ UNCHANGED <<synth, server, speechApi, original, translated, inputLang, outputLang,
                 lastResultRef, timers, inflight, heard, unhandled>>

\* the end event of a session
OnEnd(k) ==
  /\ Obj(k).state \in {"stopping", "ending"}
  /\ recognitionRef' = RefWith(k, [Obj(k) EXCEPT !.state = "inactive"])
  /\ discarded' = DiscardedWith(k, [Obj(k) EXCEPT !.state = "inactive"])
  /\ IF Obj(k).handlers
       THEN listening' = FALSE /\ status' = OnEndStatus(status)
       ELSE UNCHANGED <<listening, status>>
  /\ UNCHANGED <<synth, server, speechApi, original, translated, inputLang, outputLang,
                 lastResultRef, timers, inflight, heard, unhandled>>

\* the recognition service closes the session on its own
EngineEnd(k) ==
  /\ Obj(k).state \in {"starting", "running"}
  /\ recognitionRef' = RefWith(k, [Obj(k) EXCEPT !.state = "ending"])
  /\ discarded' = DiscardedWith(k, [Obj(k) EXCEPT !.state = "ending"])
  /\ UNCHANGED <<synth, server, speechApi, listening, original, translated, inputLang, outputLang,
                 status, lastResultRef, timers, inflight, heard, unhandled>>

\* a result event whose changed result is final (isFinal) or interim; a
\* stopping session delivers at most one last final result
OnResult(k, isFinal, text) ==
  LET r == Obj(k)
      combined == Combined(r.captured, FinalPart(isFinal, text), InterimPart(isFinal, text))
      r2 == IF r.state = "stopping" THEN [r EXCEPT !.state = "ending"] ELSE r
  IN
  /\ r.handlers
  /\ \/ r.state = "running"
     \/ r.state = "stopping" /\ isFinal
  /\ Len(combined) <= MaxLen
  /\ isFinal => Len(heard) < MaxHeard
  /\ recognitionRef' = RefWith(k, r2)
  /\ discarded' = DiscardedWith(k, r2)
  /\ original' = combined
  /\ lastResultRef' = combined
  /\ timers' = DebounceEffect(timers, original, outputLang, combined, outputLang)
  /\ heard' = IF isFinal THEN Append(heard, text) ELSE heard
  /\ UNCHANGED <<synth, server, speechApi, listening, translated, inputLang, outputLang, status,
                 inflight, unhandled>>

\* an error event of a session
OnError(k, kind) ==
  /\ Obj(k).handlers
  /\ Obj(k).state \in {"starting", "running"}
  /\ status' = OnErrorStatus(kind)
  /\ recognitionRef' = RefWith(k, OnErrorRec(kind, Obj(k)))
  /\ discarded' = DiscardedWith(k, OnErrorRec(kind, Obj(k)))
  /\ UNCHANGED <<synth, server, speechApi, listening, original, translated, inputLang, outputLang,
                 lastResultRef, timers, inflight, heard, unhandled>>

\* ------------------------------------------------------------ toggleListening
\* the start branch without the r.abort() of the recovery
ToggleStartNoAbort(r) ==
  IF ~StartThrows(r)
  THEN [ref |-> DoStart(r), discarded |-> discarded, status |-> status,
        unhandled |-> FALSE]
  ELSE [ref |-> DoStart(createRecognition(inputLang, original)),
        discarded |-> Discard(discarded, r), status |-> status, unhandled |-> FALSE]

\* the start branch: r.start(), and on InvalidStateError abort, recreate, start
ToggleStart(r) ==
  IF ~StartThrows(r)
  THEN [ref |-> DoStart(r), discarded |-> discarded, status |-> status,
        unhandled |-> FALSE]
  ELSE LET n == createRecognition(inputLang, original)
       IN IF StartThrows(n)
          THEN [ref |-> n, discarded |-> Discard(discarded, DoAbort(r)),
                status |-> "error", unhandled |-> FALSE]
          ELSE [ref |-> DoStart(n), discarded |-> Discard(discarded, DoAbort(r)),
                status |-> status, unhandled |-> FALSE]

\* the stop branch: r.stop()
ToggleStop(r) ==
  [ref |-> DoStop(r), discarded |-> discarded, status |-> status, unhandled |-> FALSE]

\* toggleListening without the capability test
NoCapabilityIgnored(r) == FALSE

\* if (!rec) { if (!hasSpeechRecognition()) { setStatus("no-speech-api"); return; } }
NoCapability(r) == r = NullRec /\ ~speechApi

toggleListening ==
  /\ ~unhandled
  /\ IF NoCapability(recognitionRef)
     THEN /\ status' = "no-speech-api"
          /\ UNCHANGED <<recognitionRef, discarded, unhandled>>
     ELSE LET r == IF recognitionRef = NullRec
                   THEN createRecognition(inputLang, original)
                   ELSE recognitionRef
              out == IF ~listening THEN ToggleStart(r) ELSE ToggleStop(r)
          IN /\ (~listening /\ StartThrows(r)) => CanDiscard(DoAbort(r))
             /\ recognitionRef' = out.ref
             /\ discarded' = out.discarded
             /\ status' = out.status
             /\ unhandled' = out.unhandled
  /\ UNCHANGED <<synth, server, speechApi, listening, original, translated, inputLang, outputLang,
                 lastResultRef, timers, inflight, heard>>

\* ------------------------------------------------------------------ selectors
\* a change that detaches the old recognizer and leaves it running
ReplacedNoAbort(r) == Detach(r)

\* the recognizer the change leaves behind: aborted by onChange, then detached
\* and aborted by the cleanup
Replaced(r) == DoAbort(Detach(DoAbort(r)))

\* input language select: abort the current recognizer, setInputLang; the
\* cleanup of useEffect([inputLang]) detaches the handlers, aborts and clears
\* the ref, then the effect creates the recognizer of the new language
ChangeInputLang(v) ==
  /\ v # inputLang
  /\ inputLang' = v
  /\ IF ~speechApi
     THEN /\ status' = "no-speech-api"
          /\ UNCHANGED <<recognitionRef, discarded>>
     ELSE LET old == Replaced(recognitionRef)
          IN /\ CanDiscard(old)
             /\ discarded' = Discard(discarded, old)
             /\ recognitionRef' = createRecognition(v, original)
             /\ UNCHANGED status
  /\ UNCHANGED <<synth, server, speechApi, listening, original, translated, outputLang,
                 lastResultRef, timers, inflight, heard, unhandled>>

\* an output language select that also empties the translation
ChangeOutputLangClears(v) ==
  /\ v # outputLang
  /\ outputLang' = v
  /\ translated' = <<>>
  /\ timers' = DebounceEffect(timers, original, outputLang, original, v)
  /\ UNCHANGED <<synth, server, speechApi, listening, original, inputLang, status,
                 recognitionRef, lastResultRef, discarded, inflight, heard, unhandled>>

\* output language select: setOutputLang
ChangeOutputLang(v) ==
  /\ v # outputLang
  /\ outputLang' = v
  /\ timers' = DebounceEffect(timers, original, outputLang, original, v)
  /\ UNCHANGED <<synth, server, speechApi, listening, original, translated, inputLang, status,
                 recognitionRef, lastResultRef, discarded, inflight, heard, unhandled>>

clearAll ==
  /\ original' = <<>>
  /\ translated' = <<>>
  /\ lastResultRef' = <<>>
  /\ heard' = <<>>
  /\ timers' = DebounceEffect(timers, original, outputLang, <<>>, outputLang)
  /\ UNCHANGED <<synth, server, speechApi, listening, inputLang, outputLang, status,
                 recognitionRef, discarded, inflight, unhandled>>

\* ------------------------------------------------------------------ synthesis
\* synthRef.current.getVoices(): the platform's voices; a voice's lang is a
\* language code followed by a region, or empty
Voices == { [name |-> "Bangla", lang |-> <<"bn", "-BD">>],
            [name |-> "English", lang |-> <<"en", "-US">>],
            [name |-> "Unnamed", lang |-> <<>>] }

StartsWith(s, p) == Len(s) >= Len(p) /\ SubSeq(s, 1, Len(p)) = p

\* voices.find((v) => v.lang && v.lang.startsWith(outputLang))
Match(voices, lang) == {v \in voices : v.lang # <<>> /\ StartsWith(v.lang, <<lang>>)}

\* new SpeechSynthesisUtterance(translated) with utter.voice and utter.lang set
Utterance(text, lang, voices) ==
  [text |-> text, lang |-> lang,
   voice |-> IF Match(voices, lang) = {} THEN "default"
             ELSE (CHOOSE v \in Match(voices, lang) : TRUE).name]

\* speak() that never returns early
SpeakReturnsNever(t) == FALSE

\* if (!translated) return
SpeakReturns(t) == t = <<>>

\* speechSynthesis.cancel(): every utterance leaves the queue
Cancel(sy) == [sy EXCEPT !.queue = <<>>, !.speaking = FALSE]

\* if (synthRef.current.speaking) synthRef.current.cancel()
CancelIfSpeaking(sy) == IF sy.speaking THEN Cancel(sy) ELSE sy

\* the Speak button; getVoices() answers the empty list until the voices are loaded
speak ==
  /\ IF SpeakReturns(translated) THEN UNCHANGED synth
     ELSE \E voices \in {{}, Voices} :
            LET sy == CancelIfSpeaking(synth)
            IN /\ Len(sy.queue) < MaxQueue
               /\ synth' = [queue |-> Append(sy.queue, Utterance(translated, outputLang, voices)),
                            speaking |-> sy.speaking,
                            calls |-> (IF sy = synth THEN <<>> ELSE <<"cancel">>)
                                        \o <<"getVoices", "speak">>]
  /\ UNCHANGED <<server, speechApi, listening, original, translated, inputLang,
                 outputLang, status, recognitionRef, lastResultRef, discarded,
                 timers, inflight, heard, unhandled>>

\* the engine begins to speak the utterance at the head of its queue
UtterStart ==
  /\ synth.queue # <<>>
  /\ ~synth.speaking
  /\ synth' = [synth EXCEPT !.speaking = TRUE]
  /\ UNCHANGED <<server, speechApi, listening, original, translated, inputLang,
                 outputLang, status, recognitionRef, lastResultRef, discarded,
                 timers, inflight, heard, unhandled>>

\* the utterance being spoken is over
UtterEnd ==
  /\ synth.speaking
  /\ synth' = [synth EXCEPT !.queue = Tail(@), !.speaking = FALSE]
  /\ UNCHANGED <<server, speechApi, listening, original, translated, inputLang,
                 outputLang, status, recognitionRef, lastResultRef, discarded,
                 timers, inflight, heard, unhandled>>

\* --------------------------------------------------------------------- server
\* what the chat completions API answers: a completion, a reply without
\* choices, or a failed call
Translation(text, lang) == <<lang>> \o <<" ">>
Upstream(text, lang) ==
  { [kind |-> "choices", content |-> Translation(text, lang)],
    [kind |-> "choices", content |-> <<" ">>],
    [kind |-> "nochoices"],
    [kind |-> "throw"] }

\* the handler with the credential test ahead of the text test
ServerTranslateKeyFirst(text, lang, key, up) ==
  IF ~key THEN [code |-> 200, body |-> [translated |-> NoKeyNotice \o text]]
  ELSE IF text = <<>> THEN [code |-> 400, body |-> [error |-> "text required"]]
  ELSE IF up.kind = "throw" THEN [code |-> 500, body |-> [error |-> "server error"]]
  ELSE IF up.kind = "choices" THEN [code |-> 200, body |-> [translated |-> Trim(up.content)]]
  ELSE [code |-> 500, body |-> [error |-> "No translation result"]]

\* app.post("/api/translate")
ServerTranslate(text, lang, key, up) ==
  IF text = <<>> THEN [code |-> 400, body |-> [error |-> "text required"]]
  ELSE IF ~key THEN [code |-> 200, body |-> [translated |-> NoKeyNotice \o text]]
  ELSE IF up.kind = "throw" THEN [code |-> 500, body |-> [error |-> "server error"]]
  ELSE IF up.kind = "choices" THEN [code |-> 200, body |-> [translated |-> Trim(up.content)]]
  ELSE [code |-> 500, body |-> [error |-> "No translation result"]]

\* const { text, outputLang } = req.body || {}: a body without the text field
\* is handled as one whose text is empty
BodyText(body) == IF "text" \in DOMAIN body THEN body.text ELSE <<>>

\* the handler reaches fetch("https://api.openai.com/v1/chat/completions")
CallsUpstream(text, key) == text # <<>> /\ key

\* texts and bodies of requests made to the server by any client
RECURSIVE TextsUpTo(_)
TextsUpTo(n) ==
  IF n = 0 THEN {<<>>}
  ELSE TextsUpTo(n - 1) \cup
       {Append(t, x) : t \in {u \in TextsUpTo(n - 1) : Len(u) = n - 1}, x \in {"a", "b", " "}}
Bodies ==
  {[outputLang |-> l] : l \in OutputLangs} \cup
  {[text |-> t, outputLang |-> l] : t \in TextsUpTo(MaxReqLen), l \in OutputLangs}

\* POST /api/translate, with or without OPENAI_API_KEY in the environment
Post(body, key, up) ==
  /\ server' = [body |-> body, key |-> key,
                res |-> ServerTranslate(BodyText(body), body.outputLang, key, up),
                fetched |-> CallsUpstream(BodyText(body), key)]
  /\ UNCHANGED <<synth, speechApi, listening, original, translated, inputLang,
                 outputLang, status, recognitionRef, lastResultRef, discarded,
                 timers, inflight, heard, unhandled>>

\* how a fetch call can settle: fetch or resp.json() throws, or the server
\* replies, with or without OPENAI_API_KEY, whatever the upstream API did
FetchFailed == [ok |-> FALSE, reply |-> [code |-> 0, body |-> [error |-> "fetch failed"]]]
Outcomes(text, lang) ==
  {FetchFailed} \cup
  {[ok |-> TRUE, reply |-> ServerTranslate(text, lang, key, up)] :
     key \in BOOLEAN, up \in Upstream(text, lang)}

\* ------------------------------------------------------------- translateText
\* the timer callback: if (original.trim().length > 0) translateText(original)
ShouldDispatchAny(text) == Len(text) >= 0

ShouldDispatch(text) == Len(Trim(text)) > 0

\* if (data.translated): the field is there and is not the empty string
HasTranslated(data) == "translated" \in DOMAIN data /\ data.translated # <<>>

\* translateText publishing data.translated whatever it is
PublishedNoFallback(transportOk, data) ==
  IF ~transportOk THEN [translated |-> ErrorPlaceholder, status |-> "error", thrown |-> FALSE]
  ELSE IF "translated" \in DOMAIN data
       THEN [translated |-> data.translated, status |-> "translated", thrown |-> FALSE]
       ELSE [translated |-> <<>>, status |-> "translated", thrown |-> FALSE]

\* what translateText publishes once the fetch settled: transportOk is false
\* when fetch or resp.json() throws
Published(transportOk, data) ==
  IF ~transportOk THEN [translated |-> ErrorPlaceholder, status |-> "error", thrown |-> FALSE]
  ELSE IF HasTranslated(data)
       THEN [translated |-> data.translated, status |-> "translated", thrown |-> FALSE]
       ELSE [translated |-> FailedPlaceholder, status |-> "error", thrown |-> FALSE]

\* fetch(.../api/translate) with body {text, outputLang}
Request(text, lang) == [text |-> text, lang |-> lang, superseded |-> FALSE]

\* the i-th call settles: it leaves the list, and if its translation is put on
\* display (shown) the calls made before it are from now on older than the
\* text on display
Settle(q, i, shown) ==
  [j \in 1..(Len(q) - 1) |->
     IF j < i THEN [q[j] EXCEPT !.superseded = (@ \/ shown)] ELSE q[j + 1]]

\* time passes
Tick ==
  /\ \E t \in timers : t.left > 0
  /\ timers' = {[t EXCEPT !.left = IF @ > TickMs THEN @ - TickMs ELSE 0] : t \in timers}
  /\ UNCHANGED <<synth, server, speechApi, listening, original, translated, inputLang, outputLang,
                 status, recognitionRef, lastResultRef, discarded, inflight, heard,
                 unhandled>>

\* the debounce timer fires; translateText runs up to its await
TimerFire(t) ==
  /\ t \in timers
  /\ t.left = 0
  /\ timers' = timers \ {t}
  /\ IF ShouldDispatch(t.text)
     THEN /\ Len(inflight) < MaxInflight
          /\ status' = "translating"
          /\ inflight' = Append(inflight, Request(t.text, t.lang))
     ELSE UNCHANGED <<status, inflight>>
  /\ UNCHANGED <<synth, server, speechApi, listening, original, translated, inputLang,
                 outputLang, recognitionRef, lastResultRef, discarded, heard, unhandled>>

\* a fetch call settles; translateText resumes after its await
Respond(i, out) ==
  LET pub == Published(out.ok, out.reply.body)
  IN
  /\ i \in 1..Len(inflight)
  /\ inflight' = Settle(inflight, i, pub.status = "translated")
  /\ translated' = pub.translated
  /\ status' = pub.status
  /\ unhandled' = (unhandled \/ pub.thrown)
  /\ UNCHANGED <<synth, server, speechApi, listening, original, inputLang, outputLang,
                 recognitionRef, lastResultRef, discarded, timers, heard>>

Next ==
  \/ toggleListening
  \/ \E k \in Objs : OnStart(k)
  \/ \E k \in Objs : OnEnd(k)
  \/ \E k \in Objs : EngineEnd(k)
  \/ \E k \in Objs, f \in BOOLEAN, t \in Texts : OnResult(k, f, t)
  \/ \E k \in Objs, e \in ErrorKinds : OnError(k, e)
  \/ \E v \in InputLangs : ChangeInputLang(v)
  \/ \E v \in OutputLangs : ChangeOutputLang(v)
  \/ clearAll
  \/ Tick
  \/ \E t \in timers : TimerFire(t)
  \/ \E i \in 1..Len(inflight) :
       \E out \in Outcomes(inflight[i].text, inflight[i].lang) : Respond(i, out)

  \/ speak
  \/ UtterStart
  \/ UtterEnd
  \/ \E body \in Bodies, key \in BOOLEAN :
       \E up \in Upstream(BodyText(body), body.outputLang) : Post(body, key, up)

Spec == Init /\ [][Next]_vars

\* the component while no debounce window elapses: capture, language and
\* clear events only
NextCapture ==
  \/ toggleListening
  \/ \E k \in Objs : OnStart(k)
  \/ \E k \in Objs : OnEnd(k)
  \/ \E k \in Objs : EngineEnd(k)
  \/ \E k \in Objs, f \in BOOLEAN, t \in Texts : OnResult(k, f, t)
  \/ \E k \in Objs, e \in ErrorKinds : OnError(k, e)
  \/ \E v \in InputLangs : ChangeInputLang(v)
  \/ clearAll

SpecCapture == Init /\ [][NextCapture]_vars

\* the component with a capture service that reports interim results and no
\* error, a user who does not press Start twice in a row and leaves the input
\* language alone: transcript changes, timers, fetch calls
NextTranslate ==
  \/ toggleListening /\ (listening \/ ~StartThrows(recognitionRef))
  \/ \E k \in Objs : OnStart(k)
  \/ \E k \in Objs : OnEnd(k)
  \/ \E k \in Objs, t \in Texts : OnResult(k, FALSE, t)
  \/ \E v \in OutputLangs : ChangeOutputLang(v)
  \/ clearAll
  \/ Tick
  \/ \E t \in timers : TimerFire(t)
  \/ \E i \in 1..Len(inflight) :
       \E out \in Outcomes(inflight[i].text, inflight[i].lang) : Respond(i, out)

SpecTranslate == Init /\ [][NextTranslate]_vars

\* the answer of a server that holds a credential and gets a completion
Healthy(text, lang) ==
  [ok |-> TRUE,
   reply |-> ServerTranslate(text, lang, TRUE,
                             [kind |-> "choices", content |-> Translation(text, lang)])]

\* the component with every control of the page in use: a capture service
\* that reports the interim result "a" and no error, a user who does not
\* press Start twice in a row nor Speak while an utterance is queued, a
\* server that answers with a translation before the next call is made
NextPage ==
  \/ toggleListening /\ (~speechApi \/ listening \/ ~StartThrows(recognitionRef))
  \/ \E k \in Objs : OnStart(k)
  \/ \E k \in Objs : OnEnd(k)
  \/ \E k \in Objs : OnResult(k, FALSE, <<"a">>)
  \/ \E v \in InputLangs : ChangeInputLang(v)
  \/ \E v \in OutputLangs : ChangeOutputLang(v)
  \/ clearAll
  \/ speak /\ synth.queue = <<>>
  \/ UtterStart
  \/ UtterEnd
  \/ Tick
  \/ \E t \in timers : TimerFire(t) /\ inflight = <<>>
  \/ \E i \in 1..Len(inflight) : Respond(i, Healthy(inflight[i].text, inflight[i].lang))

SpecPage == Init /\ [][NextPage]_vars

\* the Speak button and the synthesis engine: a session that is started once
\* and reports the interim result "a", a server that answers with a
\* translation before the next call is made
NextSpeak ==
  \/ toggleListening /\ ~listening /\ ~StartThrows(recognitionRef)
  \/ \E k \in Objs : OnStart(k)
  \/ \E k \in Objs : OnResult(k, FALSE, <<"a">>)
  \/ \E v \in OutputLangs : ChangeOutputLang(v)
  \/ clearAll
  \/ speak
  \/ UtterStart
  \/ UtterEnd
  \/ Tick
  \/ \E t \in timers : TimerFire(t) /\ inflight = <<>>
  \/ \E i \in 1..Len(inflight) : Respond(i, Healthy(inflight[i].text, inflight[i].lang))

SpecSpeak == Init /\ [][NextSpeak]_vars

\* the server alone, taking requests from any client
NextServer ==
  \E body \in Bodies, key \in BOOLEAN :
    \E up \in Upstream(BodyText(body), body.outputLang) : Post(body, key, up)

SpecServer == Init /\ [][NextServer]_vars

TypeOK ==
  /\ listening \in BOOLEAN
  /\ status \in {"idle", "no-speech-api", "listening", "translating", "translated",
                 "network-error", "permission-denied", "error"}
  /\ Len(discarded) <= MaxDiscarded
  /\ Len(original) <= MaxLen
  /\ Len(inflight) <= MaxInflight
  /\ Len(synth.queue) <= MaxQueue


\* ------------------------------------------------------------------ properties
\* the words of a text, blanks left out
Words(s) == SelectSeq(s, LAMBDA x : x # " ")

RECURSIVE AllWords(_)
AllWords(h) == IF h = <<>> THEN <<>> ELSE Words(Head(h)) \o AllWords(Tail(h))

Contains(ws, w) == \E j \in 0..(Len(ws) - Len(w)) : SubSeq(ws, j + 1, j + Len(w)) = w

ObjAfter(k) == IF k = 0 THEN recognitionRef' ELSE discarded'[k]

\* C1: after each final result event the transcript is the concatenation, in
\* arrival order, of all final texts received so far
C1_FinalsConcatenated ==
  [][\A k \in Objs, t \in Texts :
       OnResult(k, TRUE, t) => Words(original') = AllWords(heard')]_vars

\* C2: the response of a call does not replace the translated text once the
\* translation of a later call is on display
C2_StaleResponseDropped ==
  [][\A i \in 1..Len(inflight) : \A out \in Outcomes(inflight[i].text, inflight[i].lang) :
       (inflight[i].superseded /\ Respond(i, out)) => translated' = translated]_vars

\* C3 as stated: every burst of changes ends in exactly one dispatch, so the
\* timer armed by a change of the pair dispatches when it fires
C3_BurstDispatchesOnce ==
  [][\A t \in timers :
       (TimerFire(t) /\ <<t.text, t.lang>> # <<<<>>, "bn">>)
         => Len(inflight') = Len(inflight) + 1]_vars

\* C3 amended: a change of the pair cancels every pending timer and arms one
\* for the new pair without dispatching; a dispatch happens only when a timer
\* has run its full delay, carries the current pair and leaves no timer
\* behind; a firing timer dispatches exactly when the transcript is not blank
C3_DebounceSingleDispatch ==
  [][/\ (<<original', outputLang'>> # <<original, outputLang>>)
          => (timers' = {NewTimer(original', outputLang')} /\ inflight' = inflight)
     /\ (Len(inflight') > Len(inflight))
          => /\ \E t \in timers : t.left = 0 /\ t.text = original /\ t.lang = outputLang
             /\ timers' = {}
             /\ inflight' = Append(inflight, Request(original, outputLang))
     /\ \A t \in timers :
          TimerFire(t) => ((Len(inflight') = Len(inflight) + 1) <=> (Trim(original) # <<>>))]_vars

\* both the transcript and the output language changed, and the only call made
\* carries the last pair
C3_Witness ==
  /\ translated = <<>>
  /\ inflight = <<Request(<<"a">>, "es")>>
  /\ timers = {}
  /\ original = <<"a">> /\ outputLang = "es"

\* C4: the last final result and the end event of a stopping session leave
\* every final text that is in the transcript in the transcript
C4_StopKeepsFinalText ==
  [][\A k \in Objs :
       (Obj(k).state = "stopping" /\ (OnEnd(k) \/ \E t \in Texts : OnResult(k, TRUE, t)))
         => \A i \in 1..Len(heard) :
              Contains(Words(original), Words(heard[i]))
                => Contains(Words(original'), Words(heard[i]))]_vars

\* C5: toggleListening on a recognizer whose start() throws InvalidStateError
\* lets no exception escape and leaves exactly one active session
C5_RestartOneSession ==
  [][(toggleListening /\ ~listening /\ StartThrows(recognitionRef) /\ speechApi)
       => (~unhandled' /\ ActiveCount' = 1)]_vars

\* the recovery ran: the replaced recognizer, handlers still attached, awaits
\* its end event and the new one is starting
C5_Witness ==
  /\ recognitionRef.state = "starting"
  /\ \E k \in 1..Len(discarded) : discarded[k].handlers /\ discarded[k].state = "ending"

\* C6: a network error sets Status to network-error and aborts the session;
\* the end event leaves a Status of network-error alone
C6_NetworkErrorAborts ==
  [][/\ \A k \in Objs : OnError(k, "network")
          => (status' = "network-error" /\ ObjAfter(k).state = "ending")
     /\ \A k \in Objs : (OnEnd(k) /\ status = "network-error")
          => status' = "network-error"]_vars

\* a session that started, got a network error and ended
C6_Witness ==
  /\ status = "network-error"
  /\ listening = FALSE
  /\ recognitionRef.state = "inactive"
  /\ original # <<>>

\* C7: the end event of a session leaves a Status of permission-denied or
\* error alone
C7_CaptureErrorKept ==
  [][\A k \in Objs :
       (OnEnd(k) /\ Obj(k).handlers /\ status \in {"permission-denied", "error"})
         => status' = status]_vars

\* C8: no fetch call is ever made for a blank transcript
C8_NoBlankDispatch == \A i \in 1..Len(inflight) : Trim(inflight[i].text) # <<>>

\* the output language was changed and the timer fired on the empty
\* transcript without a call
C8_Witness ==
  /\ timers = {}
  /\ original = <<>>
  /\ outputLang = "es"
  /\ inflight = <<>>
  /\ translated = <<>>
  /\ status = "idle"

\* C9: a response without the translated field, or a failed transport, shows
\* a placeholder, sets Status to error and lets no exception escape
C9_FailureShown ==
  [][Len(inflight') < Len(inflight)
       => \/ /\ translated' \in {FailedPlaceholder, ErrorPlaceholder}
             /\ translated' # <<>>
             /\ status' = "error"
             /\ ~unhandled'
          \/ ~\E i \in 1..Len(inflight) :
                \E out \in Outcomes(inflight[i].text, inflight[i].lang) :
                  /\ ~out.ok \/ "translated" \notin DOMAIN out.reply.body
                  /\ Respond(i, out)]_vars

C9_Witness == status = "error" /\ translated = ErrorPlaceholder /\ inflight = <<>>

\* C10: a response with the translated field shows that field's value and
\* sets Status to translated
C10_TranslatedShown ==
  [][\A i \in 1..Len(inflight) : \A out \in Outcomes(inflight[i].text, inflight[i].lang) :
       ((out.ok /\ "translated" \in DOMAIN out.reply.body) /\ Respond(i, out))
         => (translated' = out.reply.body.translated /\ status' = "translated")]_vars

\* C11: speak() with no translated text calls nothing on the synthesis engine
\* and changes no state
C11_SpeakNoop ==
  [][(speak /\ translated = <<>>) => UNCHANGED vars]_vars

\* the translation was cleared while an utterance is being spoken: speak()
\* here returns before it tests synth.speaking
C11_Witness ==
  /\ translated = <<>>
  /\ synth.speaking
  /\ synth.calls # <<>>

\* C12: a change of the input language leaves the old recognizer aborted and
\* out of recognitionRef, puts a new recognizer of the new language in
\* recognitionRef, and no step leaves more than one session active
C12_LangChangeRecreates ==
  [][/\ \A v \in InputLangs :
          (ChangeInputLang(v) /\ speechApi)
            => /\ recognitionRef' = NewRec(v, original)
               /\ recognitionRef'.lang = v
               /\ \A k \in 1..Len(discarded') : ~IsActive(discarded'[k])
               /\ IsActive(recognitionRef)
                    => /\ Len(discarded') = Len(discarded) + 1
                       /\ discarded'[Len(discarded')].state = "ending"
                       /\ ~discarded'[Len(discarded')].handlers
     /\ ActiveCount' <= 1]_vars

\* the language was changed while a session was running
C12_Witness ==
  /\ inputLang = "es-ES"
  /\ recognitionRef = NewRec("es-ES", original)
  /\ original # <<>>
  /\ \E k \in 1..Len(discarded) : discarded[k].state = "ending" /\ ~discarded[k].handlers

\* C13: without the speech API Status is no-speech-api in every reachable
\* state, there is no recognizer and no session
C13_NoApiAbsorbing ==
  ~speechApi => /\ status = "no-speech-api"
                /\ recognitionRef = NullRec
                /\ discarded = <<>>
                /\ ~listening
                /\ ActiveCount = 0

\* without the API both languages were changed and the debounce timer fired
C13_Witness ==
  /\ ~speechApi
  /\ inputLang = "es-ES"
  /\ outputLang = "es"
  /\ timers = {}

C15_ListedTransitions ==
  [][status' # status =>
       /\ status' \in {"translated", "error"} => status = "translating"
       /\ status' = "translating" => status \in {"idle", "listening"}
       /\ status' = "idle" => status = "listening"]_vars

\* a step that writes the transcript is a result callback, a step that writes
\* the translated text is the response handling of translateText
ResultStep == \E k \in Objs, f \in BOOLEAN, t \in Texts : OnResult(k, f, t)
ResponseStep ==
  \E i \in 1..Len(inflight) :
    \E out \in Outcomes(inflight[i].text, inflight[i].lang) : Respond(i, out)

\* C16 as stated: only result callbacks change the transcript and only the
\* response handling changes the translated text
C16_SingleWriter ==
  [][/\ original' # original => ResultStep
     /\ translated' # translated => ResponseStep]_vars

\* C16 amended: the transcript is changed by result callbacks and emptied by
\* clearAll, the translated text is changed by the response handling and
\* emptied by clearAll; toggleListening, speak and the two language selects
\* change neither
C16_WritersAndClear ==
  [][/\ original' # original => (ResultStep \/ (clearAll /\ original' = <<>>))
     /\ translated' # translated => (ResponseStep \/ (clearAll /\ translated' = <<>>))
     /\ ( \/ toggleListening
          \/ speak
          \/ \E v \in InputLangs : ChangeInputLang(v)
          \/ \E v \in OutputLangs : ChangeOutputLang(v) )
          => UNCHANGED <<original, translated>>]_vars

\* a translation was shown and spoken, then everything was cleared
C16_Witness ==
  /\ status = "translated"
  /\ translated = <<>>
  /\ original = <<>>
  /\ synth.calls # <<>>

\* C17: at most one utterance is being spoken or waiting in the queue of the
\* synthesis engine
C17_OneUtterance == Len(synth.queue) <= 1

\* C18: while listening is true a session is active or an end event that
\* will reach onend is pending
C18_ListeningCleared ==
  listening =>
    \E k \in Objs :
      \/ IsActive(Obj(k))
      \/ Obj(k).handlers /\ Obj(k).state \in {"stopping", "ending"}

\* C19: an event of a recognizer that is no longer in recognitionRef changes
\* neither listening nor Status nor the transcript
C19_ReplacedSilent ==
  [][\A k \in 1..Len(discarded) :
       ( \/ OnStart(k)
         \/ OnEnd(k)
         \/ \E f \in BOOLEAN, t \in Texts : OnResult(k, f, t)
         \/ \E e \in ErrorKinds : OnError(k, e) )
         => UNCHANGED <<listening, status, original>>]_vars

\* C20: once clearAll emptied the transcript and the translated text, the
\* response of a call made before the clear leaves the translated text empty
C20_ClearedStaysEmpty ==
  [][\A i \in 1..Len(inflight) : \A out \in Outcomes(inflight[i].text, inflight[i].lang) :
       (original = <<>> /\ translated = <<>> /\ Respond(i, out))
         => translated' = <<>>]_vars

====
